---- MODULE Spec2Model ----
(***************************************************************************)
(* State-machine model of the authentication service of WebReviewerBack   *)
(* (src/services/auth.py).  Every handler is a sequence of remote table   *)
(* calls against the hosted database; each remote call is one atomic step *)
(* of the request that makes it, and requests of different clients        *)
(* interleave at that granularity.  Time is counted in hours.             *)
(***************************************************************************)
EXTENDS Integers, FiniteSets, Sequences, TLC

\* ------------------------------------------------------------------ bounds
MaxTime == 36
MaxUsers == 3
MaxTokenRows == 3
MaxContent == 2
MaxVotes == 2

Procs == {1, 2}
Scheduler == 0
AllProcs == Procs \cup {Scheduler}
\* One client whose requests follow one another.
Sequential == {1}
Usernames == {"alice", "bob"}
Emails == {"a@x.io", "b@x.io"}
Passwords == {"pw1", "pw2"}
Codes == {"A1B2C3", "Z9Y8X7"}
CodeInputs == Codes \cup {"a1b2c3"}

\* ------------------------------------------------------- program constants
ACCESS_TOKEN_EXPIRE_MINUTES == 60
REFRESH_TOKEN_EXPIRE_DAYS == 7
EMAIL_VERIFICATION_EXPIRE_HOURS == 24
UNVERIFIED_ACCOUNT_TTL_HOURS == 24

\* ------------------------------------------------------------------- state
VARIABLES
    user,                       \* table "user": set of rows
    email_verification_token,   \* table "email_verification_token": set of rows
    nextUserId,                 \* serial of user.id
    nextTokenRowId,             \* serial of email_verification_token.id
    now,                        \* datetime.utcnow(), in hours
    held,                       \* JWTs of this service in the hands of clients
    pc,                         \* position of each request in its handler
    loc,                        \* local variables of each request
    resp,                       \* the response sent by the step just taken
    content,                    \* the content tables: table name -> set of rows
    nextContentId,              \* serial of the ids of the content tables
    usedCodes,                  \* code values accepted and not inserted again since
    rotated,                    \* refresh tokens a successful /refresh was given
    purged                      \* user rows the account cleanup deleted, and when

dbvars == <<user, email_verification_token, nextUserId, nextTokenRowId>>
rest == <<content, nextContentId, rotated, purged>>
vars == <<user, email_verification_token, nextUserId, nextTokenRowId, now,
          held, pc, loc, resp, content, nextContentId, usedCodes, rotated, purged>>

\* The tables delete_account empties of the user's rows, in its order, and the
\* tag table of the posts.
OwnedTables == <<"review_vote", "post_vote", "phishing_vote", "review_comment",
                 "post_comment", "phishing_comment", "post", "review",
                 "phishing_site">>
AllTables == {OwnedTables[i] : i \in 1..Len(OwnedTables)} \cup {"tag"}
Roles == {"user", "admin"}
TagNames == {"news"}

NoRow == [id |-> 0]
NoToken == [sub |-> 0]

\* --------------------------------------------------------- pure functions
\* pwd_context.hash / pwd_context.verify
get_password_hash(password) == <<"bcrypt", password>>
verify_password(plain_password, hashed_password) ==
    hashed_password = get_password_hash(plain_password)

\* str.upper() on the code inputs of the model
Upper(c) == IF c = "a1b2c3" THEN "A1B2C3" ELSE c

\* jwt.encode of {"sub", "role", "exp"}
create_access_token(sub, role) ==
    [sub |-> sub, role |-> role, exp |-> now + ACCESS_TOKEN_EXPIRE_MINUTES \div 60]
create_refresh_token(sub, role) ==
    [sub |-> sub, role |-> role, exp |-> now + REFRESH_TOKEN_EXPIRE_DAYS * 24]

\* jwt.decode: the signature is ours (clients cannot forge one: NoToken stands
\* for every string that is not a JWT of this service) and exp has not passed
jwt_decode_ok(token) == token # NoToken /\ token.exp >= now

\* ---------------------------------------------------------------- locals
InitLoc ==
    [op |-> "none", username |-> "", email |-> "", password |-> "", code |-> "",
     token |-> NoToken, row |-> NoRow, uid |-> 0, newcode |-> "", expires_at |-> 0,
     picked |-> NoRow, checked_at |-> 0, todo |-> {}, cur |-> NoRow, ret |-> "",
     admin |-> FALSE, k |-> 0, stale |-> FALSE, wrote |-> FALSE, removed |-> 0,
     deleted |-> {}, failed |-> FALSE, vote_type |-> ""]

NoResp == [op |-> "none", status |-> 0, access |-> NoToken, refresh |-> NoToken,
           uid |-> 0, email |-> "", password |-> "", code |-> "", row |-> NoRow,
           picked |-> NoRow, checked_at |-> 0, token |-> NoToken, stale |-> FALSE,
           wrote |-> FALSE, removed |-> 0, deleted |-> {}]

\* A request starts: its inputs become its locals.
Start(p, l, first) ==
    /\ pc[p] = "idle"
    /\ pc' = [pc EXCEPT ![p] = first]
    /\ loc' = [loc EXCEPT ![p] = l]
    /\ resp' = NoResp

\* The response of request p: the status, the tokens, and what the request
\* was given and had read when it answered.
Response(p, status, access, refresh) ==
    [op |-> loc[p].op, status |-> status, access |-> access, refresh |-> refresh,
     uid |-> loc[p].uid, email |-> loc[p].email, password |-> loc[p].password,
     code |-> loc[p].code, row |-> loc[p].row, picked |-> loc[p].picked,
     checked_at |-> loc[p].checked_at, token |-> loc[p].token,
     stale |-> loc[p].stale, wrote |-> loc[p].wrote, removed |-> loc[p].removed,
     deleted |-> loc[p].deleted]

\* A request ends with an HTTP status and no tokens.
Respond(p, status) ==
    /\ pc' = [pc EXCEPT ![p] = "idle"]
    /\ resp' = Response(p, status, NoToken, NoToken)
    /\ loc' = [loc EXCEPT ![p] = InitLoc]

\* A request ends with 200, an access token in the body and a refresh token
\* in the HttpOnly cookie.
RespondTokens(p, uid, role) ==
    /\ pc' = [pc EXCEPT ![p] = "idle"]
    /\ resp' = [Response(p, 200, create_access_token(uid, role),
                         create_refresh_token(uid, role)) EXCEPT !.uid = uid]
    /\ loc' = [loc EXCEPT ![p] = InitLoc]

Goto(p, label, l) ==
    /\ pc' = [pc EXCEPT ![p] = label]
    /\ loc' = [loc EXCEPT ![p] = l]
    /\ resp' = NoResp

\* ------------------------------------------------------------------ clock
\* Time passes between any two steps, half a code lifetime at a time.
Tick ==
    /\ now + EMAIL_VERIFICATION_EXPIRE_HOURS \div 2 <= MaxTime
    /\ now' = now + EMAIL_VERIFICATION_EXPIRE_HOURS \div 2
    /\ resp' = NoResp
    /\ UNCHANGED <<dbvars, held, rest, pc, loc, usedCodes>>

\* The client keeps the tokens of the response it has just received.
Keep ==
    /\ resp.access # NoToken
    /\ held' = held \cup {resp.access, resp.refresh}
    /\ resp' = NoResp
    /\ UNCHANGED <<dbvars, now, pc, loc, usedCodes, rest>>

\* ----------------------------------------- create_email_verification_code
\* The code and its expiry are drawn first, then the old rows of the user
\* are deleted ...
cc_delete(p) ==
    /\ pc[p] = "cc_delete"
    /\ \E code \in Codes :
         Goto(p, "cc_insert",
              [loc[p] EXCEPT !.newcode = code,
                             !.expires_at = now + EMAIL_VERIFICATION_EXPIRE_HOURS,
                             !.wrote = TRUE])
    /\ email_verification_token' =
         {t \in email_verification_token : t.user_id # loc[p].uid}
    /\ UNCHANGED <<user, nextUserId, nextTokenRowId, now, held, rest, usedCodes>>

\* ... and the new row is inserted by a second remote call.
cc_insert(p) ==
    /\ pc[p] = "cc_insert"
    /\ email_verification_token' = email_verification_token \cup
         {[id |-> nextTokenRowId, user_id |-> loc[p].uid,
           token |-> loc[p].newcode, expires_at |-> loc[p].expires_at]}
    /\ nextTokenRowId' = nextTokenRowId + 1
    /\ usedCodes' = usedCodes \ {loc[p].newcode}
    /\ pc' = [pc EXCEPT ![p] = loc[p].ret]
    /\ loc' = [q \in AllProcs |->
                 IF Upper(loc[q].code) = loc[p].newcode
                 THEN [loc[q] EXCEPT !.stale = FALSE] ELSE loc[q]]
    /\ resp' = NoResp
    /\ UNCHANGED <<user, nextUserId, now, held, rest>>

\* Requests that may still insert a code row / a user row (the serials are
\* capped by the bounds when a request starts).
MayInsertCode == {"signup", "login", "resend_verification_code"}
CodeRoom ==
    nextTokenRowId + Cardinality({q \in Procs : loc[q].op \in MayInsertCode})
        <= MaxTokenRows
UserRoom ==
    nextUserId + Cardinality({q \in Procs : loc[q].op = "signup"}) <= MaxUsers

\* ----------------------------------------- verify_email_verification_code
\* The lookup by code value; data[0] is whichever matching row comes first.
vec_select(p) ==
    /\ pc[p] = "vec_select"
    /\ LET code == Upper(loc[p].code)
           data == {t \in email_verification_token : t.token = code}
       IN  IF data = {}
           THEN Goto(p, loc[p].ret, [loc[p] EXCEPT !.uid = 0, !.picked = NoRow])
           ELSE \E code_data \in data :
                  Goto(p, "vec_check", [loc[p] EXCEPT !.picked = code_data])
    /\ UNCHANGED <<dbvars, now, held, rest, usedCodes>>

code_never_expired(code_data) == FALSE

\* datetime.utcnow() > expires_at
code_expired(code_data) == now > code_data.expires_at

\* An expired code is deleted (by value) and refused; a live one names its user.
vec_check(p) ==
    /\ pc[p] = "vec_check"
    /\ IF code_expired(loc[p].picked)
       THEN /\ email_verification_token' =
                 {t \in email_verification_token : t.token # Upper(loc[p].code)}
            /\ Goto(p, loc[p].ret, [loc[p] EXCEPT !.uid = 0, !.checked_at = now,
                                                  !.wrote = TRUE])
       ELSE /\ UNCHANGED email_verification_token
            /\ Goto(p, loc[p].ret, [loc[p] EXCEPT !.uid = loc[p].picked.user_id,
                                                  !.checked_at = now])
    /\ UNCHANGED <<user, nextUserId, nextTokenRowId, now, held, rest, usedCodes>>

\* ---------------------------------------------------------- verify_signup
verify_signup(p) ==
    /\ \E email \in Emails, code \in CodeInputs :
         Start(p, [InitLoc EXCEPT !.op = "verify_signup", !.email = email,
                                  !.code = Upper(code), !.ret = "vs_user",
                                  !.stale = (Upper(code) \in usedCodes)],
               "vec_select")
    /\ UNCHANGED <<dbvars, now, held, rest, usedCodes>>

vs_user(p) ==
    /\ pc[p] = "vs_user"
    /\ LET data == {u \in user : u.id = loc[p].uid}
       IN  IF loc[p].uid = 0 \/ data = {}
           THEN Respond(p, 400)
           ELSE \E user_data \in data :
                  IF user_data.email # loc[p].email
                  THEN Respond(p, 400)
                  ELSE Goto(p, "vs_update", [loc[p] EXCEPT !.row = user_data])
    /\ UNCHANGED <<dbvars, now, held, rest, usedCodes>>

\* update user set email_verified = true where id = user_id
SetVerified(uid) ==
    {IF u.id = uid THEN [u EXCEPT !.email_verified = TRUE] ELSE u : u \in user}

vs_update_skipped(p) ==
    /\ pc[p] = "vs_update"
    /\ Goto(p, "vs_delete", loc[p])
    /\ UNCHANGED <<dbvars, now, held, rest, usedCodes>>

vs_update(p) ==
    /\ pc[p] = "vs_update"
    /\ user' = SetVerified(loc[p].uid)
    /\ Goto(p, "vs_delete", [loc[p] EXCEPT !.wrote = TRUE])
    /\ UNCHANGED <<email_verification_token, nextUserId, nextTokenRowId, now,
                   held, rest, usedCodes>>

vs_delete(p) ==
    /\ pc[p] = "vs_delete"
    /\ email_verification_token' =
         {t \in email_verification_token : t.user_id # loc[p].uid}
    /\ usedCodes' = usedCodes \cup {loc[p].code}
    /\ RespondTokens(p, loc[p].uid, loc[p].row.role)
    /\ UNCHANGED <<user, nextUserId, nextTokenRowId, now, held, rest>>

\* -------------------------------------------------- verify_email_code_api
verify_email_code_api(p) ==
    /\ \E code \in CodeInputs :
         Start(p, [InitLoc EXCEPT !.op = "verify_email_code_api",
                                  !.code = Upper(code), !.ret = "ve_update",
                                  !.stale = (Upper(code) \in usedCodes)],
               "vec_select")
    /\ UNCHANGED <<dbvars, now, held, rest, usedCodes>>

ve_update(p) ==
    /\ pc[p] = "ve_update"
    /\ IF loc[p].uid = 0
       THEN Respond(p, 400) /\ UNCHANGED user
       ELSE /\ user' = SetVerified(loc[p].uid)
            /\ IF \E u \in user : u.id = loc[p].uid
               THEN Goto(p, "ve_delete", [loc[p] EXCEPT !.wrote = TRUE])
               ELSE Respond(p, 500)
    /\ UNCHANGED <<email_verification_token, nextUserId, nextTokenRowId, now,
                   held, rest, usedCodes>>

ve_delete(p) ==
    /\ pc[p] = "ve_delete"
    /\ email_verification_token' =
         {t \in email_verification_token : t.token # loc[p].code}
    /\ usedCodes' = usedCodes \cup {loc[p].code}
    /\ Respond(p, 200)
    /\ UNCHANGED <<user, nextUserId, nextTokenRowId, now, held, rest>>

\* ------------------------------------------------------------------ login
login(p) ==
    /\ CodeRoom
    /\ \E email \in Emails, password \in Passwords :
         Start(p, [InitLoc EXCEPT !.op = "login", !.email = email,
                                  !.password = password],
               "lg_select")
    /\ UNCHANGED <<dbvars, now, held, rest, usedCodes>>

lg_select_unchecked(p) ==
    /\ pc[p] = "lg_select"
    /\ LET data == {u \in user : u.email = loc[p].email}
       IN  IF data = {}
           THEN Respond(p, 401)
           ELSE \E user_row \in data :
                  IF ~verify_password(loc[p].password, user_row.password_hash)
                  THEN Respond(p, 401)
                  ELSE RespondTokens(p, user_row.id, user_row.role)
    /\ UNCHANGED <<dbvars, now, held, rest, usedCodes>>

\* The row is read once; password first, then the verification state.
lg_select(p) ==
    /\ pc[p] = "lg_select"
    /\ LET data == {u \in user : u.email = loc[p].email}
       IN  IF data = {}
           THEN Respond(p, 401)
           ELSE \E user_row \in data :
                  IF ~verify_password(loc[p].password, user_row.password_hash)
                  THEN Respond(p, 401)
                  ELSE IF ~user_row.email_verified
                  THEN Goto(p, "cc_delete",
                            [loc[p] EXCEPT !.row = user_row, !.uid = user_row.id,
                                           !.ret = "lg_forbidden"])
                  ELSE RespondTokens(p, user_row.id, user_row.role)
    /\ UNCHANGED <<dbvars, now, held, rest, usedCodes>>

\* The code is mailed (the outcome is only logged) and the login is refused.
lg_forbidden(p) ==
    /\ pc[p] = "lg_forbidden"
    /\ Respond(p, 403)
    /\ UNCHANGED <<dbvars, now, held, rest, usedCodes>>

\* ----------------------------------------------- resend_verification_code
resend_verification_code(p) ==
    /\ CodeRoom
    /\ \E email \in Emails, password \in Passwords :
         Start(p, [InitLoc EXCEPT !.op = "resend_verification_code",
                                  !.email = email, !.password = password],
               "rs_select")
    /\ UNCHANGED <<dbvars, now, held, rest, usedCodes>>

rs_select(p) ==
    /\ pc[p] = "rs_select"
    /\ LET data == {u \in user : u.email = loc[p].email}
       IN  IF data = {}
           THEN Respond(p, 404)
           ELSE \E user_row \in data :
                  IF ~verify_password(loc[p].password, user_row.password_hash)
                  THEN Respond(p, 401)
                  ELSE IF user_row.email_verified
                  THEN Respond(p, 400)
                  ELSE Goto(p, "cc_delete",
                            [loc[p] EXCEPT !.row = user_row, !.uid = user_row.id,
                                           !.ret = "rs_send"])
    /\ UNCHANGED <<dbvars, now, held, rest, usedCodes>>

\* send_verification_code_email: True, or False when SMTP fails
rs_send(p) ==
    /\ pc[p] = "rs_send"
    /\ \E sent \in BOOLEAN : Respond(p, IF sent THEN 200 ELSE 500)
    /\ UNCHANGED <<dbvars, now, held, rest, usedCodes>>

\* ----------------------------------------------------------------- signup
signup(p) ==
    /\ CodeRoom
    /\ UserRoom
    /\ \E username \in Usernames, email \in Emails, password \in Passwords :
         Start(p, [InitLoc EXCEPT !.op = "signup", !.username = username,
                                  !.email = email, !.password = password],
               "su_select")
    /\ UNCHANGED <<dbvars, now, held, rest, usedCodes>>

\* 1. every account with this username or this e-mail
su_select(p) ==
    /\ pc[p] = "su_select"
    /\ Goto(p, "su_loop",
            [loc[p] EXCEPT !.todo = {u \in user : \/ u.username = loc[p].username
                                                  \/ u.email = loc[p].email}])
    /\ UNCHANGED <<dbvars, now, held, rest, usedCodes>>

\* The loop over the accounts read: a verified one refuses the signup, the
\* exact unverified match ends the loop, any other unverified one is deleted.
\* After the loop: 2. re-send the code of the exact match, or 3. insert.
su_loop(p) ==
    /\ pc[p] = "su_loop"
    /\ IF loc[p].todo = {}
       THEN Goto(p, "su_insert", loc[p])
       ELSE \E existing_user \in loc[p].todo :
              IF existing_user.email_verified
              THEN Respond(p, 400)
              ELSE IF /\ existing_user.username = loc[p].username
                      /\ existing_user.email = loc[p].email
              THEN IF ~verify_password(loc[p].password, existing_user.password_hash)
                   THEN Respond(p, 400)
                   ELSE Goto(p, "cc_delete",
                             [loc[p] EXCEPT !.row = existing_user,
                                            !.uid = existing_user.id,
                                            !.ret = "su_resend"])
              ELSE Goto(p, "su_del_token",
                        [loc[p] EXCEPT !.cur = existing_user,
                                       !.todo = @ \ {existing_user}])
    /\ UNCHANGED <<dbvars, now, held, rest, usedCodes>>

su_del_token(p) ==
    /\ pc[p] = "su_del_token"
    /\ email_verification_token' =
         {t \in email_verification_token : t.user_id # loc[p].cur.id}
    /\ Goto(p, "su_del_user", [loc[p] EXCEPT !.wrote = TRUE])
    /\ UNCHANGED <<user, nextUserId, nextTokenRowId, now, held, rest, usedCodes>>

su_del_user(p) ==
    /\ pc[p] = "su_del_user"
    /\ user' = {u \in user : u.id # loc[p].cur.id}
    /\ Goto(p, "su_loop", loc[p])
    /\ UNCHANGED <<email_verification_token, nextUserId, nextTokenRowId, now,
                   held, rest, usedCodes>>

su_resend(p) ==
    /\ pc[p] = "su_resend"
    /\ \E sent \in BOOLEAN : Respond(p, IF sent THEN 200 ELSE 500)
    /\ UNCHANGED <<dbvars, now, held, rest, usedCodes>>

\* The table refuses a second row with the same username or e-mail
\* ("duplicate key"); the handler then looks for its own unverified account.
su_insert(p) ==
    /\ pc[p] = "su_insert"
    /\ IF \E u \in user : u.username = loc[p].username \/ u.email = loc[p].email
       THEN /\ Goto(p, "su_retry", loc[p])
            /\ UNCHANGED <<user, nextUserId>>
       ELSE /\ user' = user \cup
                 {[id |-> nextUserId, username |-> loc[p].username,
                   email |-> loc[p].email,
                   password_hash |-> get_password_hash(loc[p].password),
                   role |-> "user", email_verified |-> FALSE, created_at |-> now]}
            /\ nextUserId' = nextUserId + 1
            /\ Goto(p, "cc_delete",
                    [loc[p] EXCEPT !.uid = nextUserId, !.ret = "su_send",
                                   !.wrote = TRUE])
    /\ UNCHANGED <<email_verification_token, nextTokenRowId, now, held, rest, usedCodes>>

su_retry(p) ==
    /\ pc[p] = "su_retry"
    /\ LET data == {u \in user : /\ u.username = loc[p].username
                                 /\ u.email = loc[p].email}
       IN  IF \E u \in data : /\ ~u.email_verified
                              /\ verify_password(loc[p].password, u.password_hash)
           THEN \E u \in data :
                  Goto(p, "cc_delete", [loc[p] EXCEPT !.row = u, !.uid = u.id,
                                                      !.ret = "su_retry_send"])
           ELSE Respond(p, 400)
    /\ UNCHANGED <<dbvars, now, held, rest, usedCodes>>

su_retry_send(p) ==
    /\ pc[p] = "su_retry_send"
    /\ \E sent \in BOOLEAN : Respond(p, IF sent THEN 200 ELSE 400)
    /\ UNCHANGED <<dbvars, now, held, rest, usedCodes>>

\* 4. the code is mailed; when the mail fails the new account is removed
su_send(p) ==
    /\ pc[p] = "su_send"
    /\ \E sent \in BOOLEAN :
         IF sent THEN Respond(p, 200) ELSE Goto(p, "su_undo_token", loc[p])
    /\ UNCHANGED <<dbvars, now, held, rest, usedCodes>>

su_undo_token(p) ==
    /\ pc[p] = "su_undo_token"
    /\ email_verification_token' =
         {t \in email_verification_token : t.user_id # loc[p].uid}
    /\ Goto(p, "su_undo_user", loc[p])
    /\ UNCHANGED <<user, nextUserId, nextTokenRowId, now, held, rest, usedCodes>>

su_undo_user(p) ==
    /\ pc[p] = "su_undo_user"
    /\ user' = {u \in user : u.id # loc[p].uid}
    /\ Respond(p, 500)
    /\ UNCHANGED <<email_verification_token, nextUserId, nextTokenRowId, now,
                   held, rest, usedCodes>>

\* A remote call of create_email_verification_code raises while signup is
\* its caller: the function raises HTTPException(500), which every try block
\* of signup passes on as the answer.
cc_raise(p) ==
    /\ pc[p] \in {"cc_delete", "cc_insert"}
    /\ loc[p].op = "signup"
    /\ Respond(p, 500)
    /\ UNCHANGED <<dbvars, now, held, rest, usedCodes>>

\* ------------------------------------------- cleanup_unverified_accounts
\* The cleanup has run to its end: the scheduler thread goes on to the
\* cleanup of expired codes, the admin endpoint answers 200.
Return(p) ==
    IF p = Scheduler
    THEN Goto(p, "ct_select", [loc[p] EXCEPT !.todo = {}, !.cur = NoRow])
    ELSE Respond(p, 200)

\* The accounts that are not verified and were created before now - TTL.
cu_select(p) ==
    /\ pc[p] = "cu_select"
    /\ LET ttl_threshold == now - UNVERIFIED_ACCOUNT_TTL_HOURS
           data == {u \in user : ~u.email_verified /\ u.created_at < ttl_threshold}
       IN  IF data = {}
           THEN Return(p)
           ELSE Goto(p, "cu_del_token", [loc[p] EXCEPT !.todo = data])
    /\ UNCHANGED <<dbvars, now, held, usedCodes, rest>>

\* for user in expired_users_result.data: delete its codes ...
cu_del_token(p) ==
    /\ pc[p] = "cu_del_token"
    /\ \E u \in loc[p].todo :
         /\ email_verification_token' =
              {t \in email_verification_token : t.user_id # u.id}
         /\ Goto(p, "cu_del_user", [loc[p] EXCEPT !.cur = u, !.todo = @ \ {u},
                                                  !.wrote = TRUE])
    /\ UNCHANGED <<user, nextUserId, nextTokenRowId, now, held, usedCodes, rest>>

\* ... and delete the row with its id.
cu_del_user(p) ==
    /\ pc[p] = "cu_del_user"
    /\ user' = {u \in user : u.id # loc[p].cur.id}
    /\ purged' = purged \cup
         {[row |-> u, at |-> now] : u \in {v \in user : v.id = loc[p].cur.id}}
    /\ IF loc[p].todo = {}
       THEN Return(p)
       ELSE Goto(p, "cu_del_token", loc[p])
    /\ UNCHANGED <<email_verification_token, nextUserId, nextTokenRowId, now, held,
                   usedCodes, content, nextContentId, rotated>>

\* A remote call of the account cleanup raises: the select ends the function
\* with an error result, a delete inside the loop is counted as failed and
\* the loop goes on with the next account.
cu_raise_uncaught(p) ==
    /\ pc[p] \in {"cu_select", "cu_del_token", "cu_del_user"}
    /\ Goto(p, "dead", [loc[p] EXCEPT !.failed = TRUE])
    /\ UNCHANGED <<dbvars, now, held, usedCodes, rest>>

cu_raise(p) ==
    /\ pc[p] \in {"cu_select", "cu_del_token", "cu_del_user"}
    /\ IF pc[p] = "cu_select"
       THEN IF p = Scheduler
            THEN Goto(p, "ct_select", [loc[p] EXCEPT !.failed = TRUE])
            ELSE Respond(p, 200)
       ELSE \E u \in (IF pc[p] = "cu_del_token" THEN loc[p].todo ELSE {loc[p].cur}) :
              LET l == [loc[p] EXCEPT !.todo = @ \ {u}, !.failed = TRUE]
              IN  IF l.todo = {}
                  THEN Goto(p, "ct_select", l)
                  ELSE Goto(p, "cu_del_token", l)
    /\ UNCHANGED <<dbvars, now, held, usedCodes, rest>>

\* ----------------------------------- cleanup_expired_verification_tokens
\* time.sleep(CLEANUP_SCHEDULE_HOURS * 3600): the thread sleeps until
\* run_cleanup starts the next cycle.
Sleep(p, l) == Goto(p, "idle", l)

\* The code rows past their expires_at.
ct_select(p) ==
    /\ pc[p] = "ct_select"
    /\ LET data == {t \in email_verification_token : t.expires_at < now}
       IN  IF data = {}
           THEN Sleep(p, loc[p])
           ELSE Goto(p, "ct_delete", [loc[p] EXCEPT !.todo = data])
    /\ UNCHANGED <<dbvars, now, held, usedCodes, rest>>

\* for token in expired_tokens_result.data: delete the row with its id.
ct_delete(p) ==
    /\ pc[p] = "ct_delete"
    /\ \E t \in loc[p].todo :
         /\ email_verification_token' =
              {r \in email_verification_token : r.id # t.id}
         /\ LET l == [loc[p] EXCEPT !.todo = @ \ {t}, !.wrote = TRUE]
            IN  IF l.todo = {} THEN Sleep(p, l) ELSE Goto(p, "ct_delete", l)
    /\ UNCHANGED <<user, nextUserId, nextTokenRowId, now, held, usedCodes, rest>>

\* A remote call of the code cleanup raises: the select ends the function,
\* a delete is logged and the loop goes on with the next row.
ct_raise(p) ==
    /\ pc[p] \in {"ct_select", "ct_delete"}
    /\ IF pc[p] = "ct_select"
       THEN Sleep(p, [loc[p] EXCEPT !.failed = TRUE])
       ELSE \E t \in loc[p].todo :
              LET l == [loc[p] EXCEPT !.todo = @ \ {t}, !.failed = TRUE]
              IN  IF l.todo = {} THEN Sleep(p, l) ELSE Goto(p, "ct_delete", l)
    /\ UNCHANGED <<dbvars, now, held, usedCodes, rest>>

\* The scheduler thread starts a cycle (the thread has been started, or its
\* sleep has ended) with the account cleanup.
run_cleanup ==
    /\ Start(Scheduler, [InitLoc EXCEPT !.op = "run_cleanup"], "cu_select")
    /\ UNCHANGED <<dbvars, now, held, usedCodes, rest>>

\* ------------------------------------------- get_current_user, admin_required
admin_required_by_token(p, current_user) == loc[p].token.role = "admin"

admin_required(p, current_user) == current_user.role = "admin"

get_current_user_from_token(p) ==
    /\ pc[p] = "get_current_user"
    /\ IF ~jwt_decode_ok(loc[p].token)
       THEN Respond(p, 401)
       ELSE IF loc[p].admin /\ loc[p].token.role # "admin"
       THEN Respond(p, 403)
       ELSE IF loc[p].ret = "return"
       THEN Respond(p, 200)
       ELSE Goto(p, loc[p].ret, [loc[p] EXCEPT !.uid = loc[p].token.sub])
    /\ UNCHANGED <<dbvars, now, held, usedCodes, rest>>

\* The token is decoded and the user row is read again; an endpoint with
\* nothing more to do answers at once.
get_current_user(p) ==
    /\ pc[p] = "get_current_user"
    /\ IF ~jwt_decode_ok(loc[p].token)
       THEN Respond(p, 401)
       ELSE LET data == {u \in user : u.id = loc[p].token.sub}
            IN  IF data = {}
                THEN Respond(p, 401)
                ELSE \E user_row \in data :
                       IF ~user_row.email_verified
                       THEN Respond(p, 403)
                       ELSE IF loc[p].admin /\ ~admin_required(p, user_row)
                       THEN Respond(p, 403)
                       ELSE IF loc[p].ret = "return"
                       THEN Respond(p, 200)
                       ELSE Goto(p, loc[p].ret,
                                 [loc[p] EXCEPT !.row = user_row, !.uid = user_row.id])
    /\ UNCHANGED <<dbvars, now, held, usedCodes, rest>>

\* A request with a bearer token: one a client holds, or a string that is not
\* a token of this service.
Bearer(p, op, admin, ret, todo) ==
    \E token \in held \cup {NoToken} :
      Start(p, [InitLoc EXCEPT !.op = op, !.token = token, !.admin = admin,
                               !.ret = ret, !.todo = todo,
                               !.stale = /\ token # NoToken
                                         /\ \A u \in user : u.id # token.sub],
            "get_current_user")

admin_only_endpoint(p) ==
    /\ Bearer(p, "admin_only_endpoint", TRUE, "return", {})
    /\ UNCHANGED <<dbvars, now, held, usedCodes, rest>>

manual_cleanup_unverified_accounts(p) ==
    /\ Bearer(p, "manual_cleanup_unverified_accounts", TRUE, "cu_select", {})
    /\ UNCHANGED <<dbvars, now, held, usedCodes, rest>>

\* The role column is written "user" by signup; any other value is set in the
\* database by its administrator.
set_role ==
    /\ \E u \in user, role \in Roles :
         /\ u.role # role
         /\ user' = (user \ {u}) \cup {[u EXCEPT !.role = role]}
    /\ resp' = NoResp
    /\ UNCHANGED <<email_verification_token, nextUserId, nextTokenRowId, now, held,
                   pc, loc, usedCodes, rest>>

\* ---------------------------------------------------------- refresh_token
verify_refresh_token(token) == IF jwt_decode_ok(token) THEN token.sub ELSE 0

refresh_token(p) ==
    /\ \E token \in held \cup {NoToken} :
         Start(p, [InitLoc EXCEPT !.op = "refresh_token", !.token = token,
                                  !.stale = (token \in rotated)],
               "rf_select")
    /\ UNCHANGED <<dbvars, now, held, usedCodes, rest>>

rf_select(p) ==
    /\ pc[p] = "rf_select"
    /\ LET user_id == verify_refresh_token(loc[p].token)
           data == {u \in user : u.id = user_id}
       IN  IF loc[p].token = NoToken \/ user_id = 0 \/ data = {}
           THEN Respond(p, 401) /\ UNCHANGED rotated
           ELSE /\ \E user_row \in data : RespondTokens(p, user_id, user_row.role)
                /\ rotated' = rotated \cup {loc[p].token}
    /\ UNCHANGED <<dbvars, now, held, usedCodes, content, nextContentId, purged>>

\* ------------------------------------------------------------ create_post
\* Room for the rows of one more post (the post and its tags) beside those of
\* the requests in progress.
ContentRoom ==
    nextContentId + (1 + Cardinality(TagNames))
        * (1 + Cardinality({q \in Procs : loc[q].op = "create_post"}))
      <= MaxContent + 1

create_post(p) ==
    /\ ContentRoom
    /\ \E tags \in SUBSET TagNames : Bearer(p, "create_post", FALSE, "cp_insert", tags)
    /\ UNCHANGED <<dbvars, now, held, usedCodes, rest>>

cp_insert(p) ==
    /\ pc[p] = "cp_insert"
    /\ content' = [content EXCEPT !["post"] =
                     @ \cup {[id |-> nextContentId, user_id |-> loc[p].uid,
                              parent |-> 0, like_count |-> 0,
                              dislike_count |-> 0]}]
    /\ nextContentId' = nextContentId + 1
    /\ Goto(p, IF loc[p].todo = {} THEN "cp_read" ELSE "cp_tag",
            [loc[p] EXCEPT !.k = nextContentId, !.wrote = TRUE])
    /\ UNCHANGED <<dbvars, now, held, usedCodes, rotated, purged>>

cp_tag(p) ==
    /\ pc[p] = "cp_tag"
    /\ \E tag_name \in loc[p].todo :
         /\ content' = [content EXCEPT !["tag"] =
                          @ \cup {[id |-> nextContentId, user_id |-> 0,
                                   parent |-> loc[p].k]}]
         /\ nextContentId' = nextContentId + 1
         /\ Goto(p, IF loc[p].todo = {tag_name} THEN "cp_read" ELSE "cp_tag",
                 [loc[p] EXCEPT !.todo = @ \ {tag_name}])
    /\ UNCHANGED <<dbvars, now, held, usedCodes, rotated, purged>>

\* select(...).single() raises when the post is gone; the application's
\* exception handler turns that into 500.
cp_read(p) ==
    /\ pc[p] = "cp_read"
    /\ IF \E r \in content["post"] : r.id = loc[p].k
       THEN Respond(p, 200)
       ELSE Respond(p, 500)
    /\ UNCHANGED <<dbvars, now, held, usedCodes, rest>>

\* -------------------------------------------------------------- vote_post
VoteTypes == {"like", "dislike"}

\* Room for the vote row of one more request beside those in progress, on a
\* post whose counters have not outgrown the bound.
VoteRoom ==
    /\ nextContentId + Cardinality({q \in Procs : loc[q].op = "vote_post"})
         <= MaxContent + MaxVotes
    /\ \A r \in content["post"] : r.like_count + r.dislike_count <= MaxVotes

\* A vote request of one of the callers, with a token the callers hold.
vote_post(p, callers) ==
    /\ VoteRoom
    /\ \E token \in {t \in held : t.sub \in callers},
          post_id \in 1..MaxContent, vote_type \in VoteTypes :
         Start(p, [InitLoc EXCEPT !.op = "vote_post", !.token = token,
                                  !.ret = "vp_post", !.k = post_id,
                                  !.vote_type = vote_type],
               "get_current_user")
    /\ UNCHANGED <<dbvars, now, held, usedCodes, rest>>

\* The post is read once, with its counters; .single() raises without a row.
vp_post(p) ==
    /\ pc[p] = "vp_post"
    /\ LET data == {r \in content["post"] : r.id = loc[p].k}
       IN  IF data = {}
           THEN Respond(p, 500)
           ELSE \E post_row \in data :
                  Goto(p, "vp_existing", [loc[p] EXCEPT !.cur = post_row])
    /\ UNCHANGED <<dbvars, now, held, usedCodes, rest>>

\* The caller's vote on the post, existing_vote[0] when there is one: the
\* same type again removes it, the other type changes it, none inserts.
vp_existing(p) ==
    /\ pc[p] = "vp_existing"
    /\ LET existing_vote == {v \in content["post_vote"] :
                               v.parent = loc[p].k /\ v.user_id = loc[p].uid}
       IN  IF existing_vote = {}
           THEN Goto(p, "vp_insert", loc[p])
           ELSE \E v \in existing_vote :
                  Goto(p, IF v.vote_type = loc[p].vote_type
                          THEN "vp_unvote" ELSE "vp_change",
                       [loc[p] EXCEPT !.picked = v])
    /\ UNCHANGED <<dbvars, now, held, usedCodes, rest>>

vp_insert(p) ==
    /\ pc[p] = "vp_insert"
    /\ content' = [content EXCEPT !["post_vote"] =
                     @ \cup {[id |-> nextContentId, user_id |-> loc[p].uid,
                              parent |-> loc[p].k, vote_type |-> loc[p].vote_type]}]
    /\ nextContentId' = nextContentId + 1
    /\ Goto(p, "vp_inc", [loc[p] EXCEPT !.wrote = TRUE])
    /\ UNCHANGED <<dbvars, now, held, usedCodes, rotated, purged>>

\* delete().eq("post_id", post_id).eq("user_id", user_id)
vp_unvote(p) ==
    /\ pc[p] = "vp_unvote"
    /\ content' = [content EXCEPT !["post_vote"] =
                     {v \in @ : ~(v.parent = loc[p].k /\ v.user_id = loc[p].uid)}]
    /\ Goto(p, "vp_dec", [loc[p] EXCEPT !.wrote = TRUE])
    /\ UNCHANGED <<dbvars, now, held, usedCodes, nextContentId, rotated, purged>>

\* update({"vote_type": vote.vote_type}).eq("id", existing_vote[0]["id"])
vp_change(p) ==
    /\ pc[p] = "vp_change"
    /\ content' = [content EXCEPT !["post_vote"] =
                     {IF v.id = loc[p].picked.id
                      THEN [v EXCEPT !.vote_type = loc[p].vote_type] ELSE v : v \in @}]
    /\ Goto(p, "vp_dec", [loc[p] EXCEPT !.wrote = TRUE])
    /\ UNCHANGED <<dbvars, now, held, usedCodes, nextContentId, rotated, purged>>

CountOf(post_row, vote_type) ==
    IF vote_type = "like" THEN post_row.like_count ELSE post_row.dislike_count

\* update({"like_count": n}).eq("id", post_id), or dislike_count
SetCount(post_id, vote_type, n) ==
    content' = [content EXCEPT !["post"] =
                  {IF r.id # post_id THEN r
                   ELSE IF vote_type = "like" THEN [r EXCEPT !.like_count = n]
                   ELSE [r EXCEPT !.dislike_count = n] : r \in @}]

\* The counter of the old vote type becomes the value read with the post,
\* minus one, not below zero.
vp_dec(p) ==
    /\ pc[p] = "vp_dec"
    /\ LET old_vote_type == loc[p].picked.vote_type
           n == CountOf(loc[p].cur, old_vote_type) - 1
       IN  /\ SetCount(loc[p].k, old_vote_type, IF n < 0 THEN 0 ELSE n)
           /\ Goto(p, IF old_vote_type = loc[p].vote_type
                      THEN "vp_result" ELSE "vp_reread", loc[p])
    /\ UNCHANGED <<dbvars, now, held, usedCodes, nextContentId, rotated, purged>>

\* A changed vote reads the post again before it counts the new type.
vp_reread(p) ==
    /\ pc[p] = "vp_reread"
    /\ LET data == {r \in content["post"] : r.id = loc[p].k}
       IN  IF data = {}
           THEN Respond(p, 500)
           ELSE \E post_row \in data :
                  Goto(p, "vp_inc", [loc[p] EXCEPT !.cur = post_row])
    /\ UNCHANGED <<dbvars, now, held, usedCodes, rest>>

\* The counter of the new vote type becomes the value read, plus one.
vp_inc(p) ==
    /\ pc[p] = "vp_inc"
    /\ SetCount(loc[p].k, loc[p].vote_type,
                CountOf(loc[p].cur, loc[p].vote_type) + 1)
    /\ Goto(p, "vp_result", loc[p])
    /\ UNCHANGED <<dbvars, now, held, usedCodes, nextContentId, rotated, purged>>

\* The counters are read back for the answer.
vp_result(p) ==
    /\ pc[p] = "vp_result"
    /\ IF \E r \in content["post"] : r.id = loc[p].k
       THEN Respond(p, 200)
       ELSE Respond(p, 500)
    /\ UNCHANGED <<dbvars, now, held, usedCodes, rest>>

\* --------------------------------------------------------- delete_account
delete_account(p) ==
    /\ Bearer(p, "delete_account", FALSE, "da_delete", {})
    /\ UNCHANGED <<dbvars, now, held, usedCodes, rest>>

\* The k-th of the nine deletes by user_id; a remote call that raises ends the
\* request with 500.
da_delete(p) ==
    /\ pc[p] = "da_delete"
    /\ LET k == loc[p].k + 1
           table == OwnedTables[k]
           mine == {r \in content[table] : r.user_id = loc[p].uid}
       IN  \E ok \in BOOLEAN :
             IF ok
             THEN /\ content' = [content EXCEPT ![table] = @ \ mine]
                  /\ Goto(p, IF k = Len(OwnedTables) THEN "da_user" ELSE "da_delete",
                          [loc[p] EXCEPT !.k = k, !.wrote = TRUE,
                                         !.removed = @ + Cardinality(mine),
                                         !.deleted = @ \cup {<<table, r.id>> : r \in mine}])
             ELSE /\ Respond(p, 500)
                  /\ UNCHANGED content
    /\ UNCHANGED <<dbvars, now, held, usedCodes, nextContentId, rotated, purged>>

\* The user row is deleted last; no row returned is an error.
da_user(p) ==
    /\ pc[p] = "da_user"
    /\ \E ok \in BOOLEAN :
         IF ok
         THEN /\ user' = {u \in user : u.id # loc[p].uid}
              /\ IF \E u \in user : u.id = loc[p].uid
                 THEN Respond(p, 200)
                 ELSE Respond(p, 500)
         ELSE /\ Respond(p, 500)
              /\ UNCHANGED user
    /\ UNCHANGED <<email_verification_token, nextUserId, nextTokenRowId, now, held,
                   usedCodes, rest>>

\* ---------------------------------------------------------- specification
Quiet ==
    /\ now = 0
    /\ held = {}
    /\ pc = [p \in AllProcs |-> "idle"]
    /\ loc = [p \in AllProcs |-> InitLoc]
    /\ resp = NoResp
    /\ content = [t \in AllTables |-> {}]
    /\ nextContentId = 1
    /\ usedCodes = {}
    /\ rotated = {}
    /\ purged = {}

\* The service starts on an empty database.
InitEmpty ==
    /\ user = {}
    /\ email_verification_token = {}
    /\ nextUserId = 1
    /\ nextTokenRowId = 1
    /\ Quiet

\* The row signup inserts (role "user", not verified) and the code row
\* create_email_verification_code inserts for it.
SignedUp(id, username, email, password) ==
    [id |-> id, username |-> username, email |-> email,
     password_hash |-> get_password_hash(password), role |-> "user",
     email_verified |-> FALSE, created_at |-> 0]
CodeRow(id, user_id, code) ==
    [id |-> id, user_id |-> user_id, token |-> code,
     expires_at |-> EMAIL_VERIFICATION_EXPIRE_HOURS]

\* The service starts on a database in which two accounts have signed up
\* and none has verified yet.
InitAccounts ==
    /\ user = {SignedUp(1, "alice", "a@x.io", "pw1"),
               SignedUp(2, "bob", "b@x.io", "pw1")}
    /\ email_verification_token = {CodeRow(1, 1, "A1B2C3"), CodeRow(2, 2, "Z9Y8X7")}
    /\ nextUserId = 3
    /\ nextTokenRowId = 3
    /\ Quiet

\* One account has signed up and has not verified yet.
InitSignedUp ==
    /\ user = {SignedUp(1, "alice", "a@x.io", "pw1")}
    /\ email_verification_token = {CodeRow(1, 1, "A1B2C3")}
    /\ nextUserId = 2
    /\ nextTokenRowId = 2
    /\ Quiet

\* Two accounts have signed up and verified; their codes are gone.
InitMembers ==
    /\ user = {[SignedUp(1, "alice", "a@x.io", "pw1") EXCEPT !.email_verified = TRUE],
               [SignedUp(2, "bob", "b@x.io", "pw1") EXCEPT !.email_verified = TRUE]}
    /\ email_verification_token = {}
    /\ nextUserId = 3
    /\ nextTokenRowId = 1
    /\ Quiet

\* Two verified members have logged in and kept their access tokens, and
\* the first has written a post without tags.
InitVoters ==
    /\ user = {[SignedUp(1, "alice", "a@x.io", "pw1") EXCEPT !.email_verified = TRUE],
               [SignedUp(2, "bob", "b@x.io", "pw1") EXCEPT !.email_verified = TRUE]}
    /\ email_verification_token = {}
    /\ nextUserId = 3
    /\ nextTokenRowId = 1
    /\ now = 0
    /\ held = {[sub |-> id, role |-> "user",
                exp |-> ACCESS_TOKEN_EXPIRE_MINUTES \div 60] : id \in {1, 2}}
    /\ pc = [p \in AllProcs |-> "idle"]
    /\ loc = [p \in AllProcs |-> InitLoc]
    /\ resp = NoResp
    /\ content = [t \in AllTables |->
                    IF t = "post"
                    THEN {[id |-> 1, user_id |-> 1, parent |-> 0,
                           like_count |-> 0, dislike_count |-> 0]}
                    ELSE {}]
    /\ nextContentId = 2
    /\ usedCodes = {}
    /\ rotated = {}
    /\ purged = {}

CreateCode(p) == cc_delete(p) \/ cc_insert(p)
Lookup(p) == vec_select(p) \/ vec_check(p)
Signup(p) ==
    \/ signup(p) \/ su_select(p) \/ su_loop(p) \/ su_del_token(p) \/ su_del_user(p)
    \/ su_resend(p) \/ su_insert(p) \/ su_retry(p) \/ su_retry_send(p)
    \/ su_send(p) \/ su_undo_token(p) \/ su_undo_user(p)
Login(p) == login(p) \/ lg_select(p) \/ lg_forbidden(p)
Resend(p) == resend_verification_code(p) \/ rs_select(p) \/ rs_send(p)
VerifySignup(p) == verify_signup(p) \/ vs_user(p) \/ vs_update(p) \/ vs_delete(p)
VerifyEmailCode(p) == verify_email_code_api(p) \/ ve_update(p) \/ ve_delete(p)

\* Verification of signed-up accounts: logins (which issue a new code to an
\* unverified account) and both verification endpoints.
Next ==
    \E p \in Procs :
      \/ Login(p) \/ CreateCode(p) \/ Lookup(p)
      \/ VerifySignup(p) \/ VerifyEmailCode(p)

Spec == InitAccounts /\ [][Next]_vars

\* The same with the passing of time, so that codes expire.
NextExpiry ==
    \/ Tick
    \/ \E p \in Procs :
         \/ Login(p) \/ CreateCode(p) \/ Lookup(p)
         \/ VerifySignup(p) \/ VerifyEmailCode(p)

SpecExpiry == InitAccounts /\ [][NextExpiry]_vars

\* Concurrent requests for a new code: logins and re-sends for an account
\* that has not verified.
NextCode ==
    \E p \in Procs : Login(p) \/ Resend(p) \/ CreateCode(p)

SpecCode == InitSignedUp /\ [][NextCode]_vars

\* Signups on an empty database, with e-mails that cannot be sent and code
\* creations that fail.
NextSignup ==
    \E p \in Procs : Signup(p) \/ CreateCode(p) \/ cc_raise(p)

SpecSignup == InitEmpty /\ [][NextSignup]_vars

\* The cleanup thread beside the requests that verify an account.
Cleanup(p) == cu_select(p) \/ cu_del_token(p) \/ cu_del_user(p)
TokenCleanup(p) == ct_select(p) \/ ct_delete(p)

NextCleanup ==
    \/ Tick
    \/ run_cleanup
    \/ Cleanup(Scheduler)
    \/ TokenCleanup(Scheduler)
    \/ \E p \in Sequential :
         \/ Login(p) \/ CreateCode(p) \/ Lookup(p)
         \/ VerifySignup(p) \/ VerifyEmailCode(p)

SpecCleanup == InitSignedUp /\ [][NextCleanup]_vars

\* The cleanup thread with remote calls that may raise, beside logins that
\* issue new codes. The thread is scheduled again and again, each of its
\* remote calls returns or raises, and each sleep ends.
Cycle ==
    \/ Cleanup(Scheduler) \/ cu_raise(Scheduler)
    \/ TokenCleanup(Scheduler) \/ ct_raise(Scheduler)

NextScheduler ==
    \/ Tick
    \/ run_cleanup
    \/ Cycle
    \/ \E p \in Sequential : Login(p) \/ CreateCode(p)

SpecScheduler ==
    /\ InitSignedUp
    /\ [][NextScheduler]_vars
    /\ WF_vars(run_cleanup)
    /\ WF_vars(Cycle)

\* A verified member's session: tokens issued, kept, refreshed and presented
\* to the endpoints behind admin_required, while the stored role is edited.
Session(p) == login(p) \/ lg_select(p) \/ refresh_token(p) \/ rf_select(p)
Guarded(p) ==
    \/ get_current_user(p) \/ admin_only_endpoint(p)
    \/ manual_cleanup_unverified_accounts(p) \/ cu_select(p)

NextSession ==
    \/ Keep
    \/ set_role
    \/ \E p \in Sequential : Session(p) \/ Guarded(p)

SpecSession == InitMembers /\ [][NextSession]_vars

\* Verified members write posts and delete their accounts.
CreatePost(p) == create_post(p) \/ cp_insert(p) \/ cp_tag(p) \/ cp_read(p)
DeleteAccount(p) == delete_account(p) \/ da_delete(p) \/ da_user(p)

NextAccount ==
    \/ Keep
    \/ \E p \in Procs :
         \/ login(p) \/ lg_select(p) \/ get_current_user(p)
         \/ CreatePost(p) \/ DeleteAccount(p)

SpecAccount == InitMembers /\ [][NextAccount]_vars

\* Votes on a post. Each member votes through a client of their own, one
\* request after another, so that requests of different members interleave.
VotePost(p) ==
    \/ vp_post(p) \/ vp_existing(p) \/ vp_insert(p) \/ vp_unvote(p)
    \/ vp_change(p) \/ vp_dec(p) \/ vp_reread(p) \/ vp_inc(p) \/ vp_result(p)

NextVote ==
    \E p \in Procs : vote_post(p, {p}) \/ get_current_user(p) \/ VotePost(p)

SpecVote == InitVoters /\ [][NextVote]_vars

\* The same with every client sending the first member's votes, so that
\* requests of one member overlap.
NextVoteOverlap ==
    \E p \in Procs : vote_post(p, {1}) \/ get_current_user(p) \/ VotePost(p)

SpecVoteOverlap == InitVoters /\ [][NextVoteOverlap]_vars

\* ------------------------------------------------------------ properties
VerifyOps == {"verify_signup", "verify_email_code_api"}

\* C1: while an account is not verified, no login response carries an access
\* token or a refresh cookie for it, and a login with its e-mail and its
\* correct password is answered 403.
C1_LoginNeedsVerification ==
    \A u \in user :
      (resp.op = "login" /\ ~u.email_verified) =>
        /\ resp.access.sub # u.id
        /\ resp.refresh.sub # u.id
        /\ (resp.email = u.email /\ verify_password(resp.password, u.password_hash))
             => (resp.status = 403 /\ resp.access = NoToken /\ resp.refresh = NoToken)

C1_Witness ==
    /\ resp.op = "login"
    /\ resp.status = 403
    /\ \E u \in user : /\ ~u.email_verified
                      /\ u.email = resp.email
                      /\ verify_password(resp.password, u.password_hash)

\* C2: when verify_signup has found a code row that had not expired and the
\* request's e-mail is the e-mail of the row's account, it answers 200, the
\* account is verified, no code row of the account is left and both tokens
\* are for that account; when the e-mail differs it answers 400 and has
\* written nothing.
C2_VerifySignup ==
    (/\ resp.op = "verify_signup"
     /\ resp.picked # NoRow
     /\ resp.picked.expires_at >= resp.checked_at) =>
       \E u \in user :
         /\ u.id = resp.picked.user_id
         /\ IF u.email = resp.email
            THEN /\ resp.status = 200
                 /\ u.email_verified
                 /\ \A t \in email_verification_token : t.user_id # u.id
                 /\ resp.access.sub = u.id /\ resp.access.role = u.role
                 /\ resp.refresh.sub = u.id /\ resp.refresh.role = u.role
            ELSE /\ resp.status = 400
                 /\ ~resp.wrote
                 /\ resp.access = NoToken /\ resp.refresh = NoToken

C2_Witness ==
    /\ resp.op = "verify_signup"
    /\ resp.status = 200
    /\ \E u \in user : u.id = resp.access.sub /\ u.email = resp.email /\ u.email_verified

\* C3 (as claimed): a verification request that arrives after code c has been
\* accepted, with no code of value c inserted since, is answered 400.
C3_SingleUse ==
    (resp.op \in VerifyOps /\ resp.stale) => resp.status = 400

\* C4: when the row the lookup has read is past its expires_at, the lookup
\* returns None, changes no account and leaves no row with the id of that row;
\* and whenever a verification request makes an account verified, the row it
\* had read was not past its expires_at when the lookup checked it.
C4_ExpiredRefused ==
    [][\A p \in Procs :
         /\ (/\ pc[p] = "vec_check" /\ pc'[p] # "vec_check"
             /\ loc[p].picked.expires_at < now) =>
               /\ loc'[p].uid = 0
               /\ user' = user
               /\ \A t \in email_verification_token' : t.id # loc[p].picked.id
         /\ (/\ pc[p] \in {"vs_update", "ve_update"} /\ pc'[p] # pc[p]
             /\ user' # user) =>
               loc[p].picked.expires_at >= loc[p].checked_at]_vars

C4_Witness ==
    \E p \in Procs :
      /\ pc[p] \in {"vs_user", "ve_update"}
      /\ loc[p].picked # NoRow
      /\ loc[p].picked.expires_at < loc[p].checked_at
      /\ loc[p].uid = 0
      /\ \A t \in email_verification_token : t.id # loc[p].picked.id

\* C5 (as claimed): once every request that creates a verification code has
\* completed, the email_verification_token table holds at most one row for
\* each user_id.
C5_OneCodePerUser ==
    (\A p \in Procs : pc[p] = "idle") =>
      \A u \in user :
        Cardinality({t \in email_verification_token : t.user_id = u.id}) <= 1

\* C6 (as claimed): every user row the cleanup deletes is not verified when
\* it is deleted and is no younger than the TTL.
C6_CleanupOnlyUnverified ==
    \A d \in purged :
      /\ ~d.row.email_verified
      /\ ~(d.at - d.row.created_at < UNVERIFIED_ACCOUNT_TTL_HOURS)

\* C7 (as claimed): a refresh request that presents a token which an earlier
\* refresh has already exchanged is answered 401.
C7_Rotation ==
    (resp.op = "refresh_token" /\ resp.stale) => resp.status = 401

AdminOps == {"admin_only_endpoint", "manual_cleanup_unverified_accounts"}

\* C8: when the dependency of an endpoint behind admin_required runs and the
\* user table holds no row with the token's id and role "admin", the request
\* ends there with 401 or 403; it is 403 when the token is genuine and the
\* row exists, is verified and has another role, whatever role the token
\* carries.
C8_AdminByStoredRole ==
    [][\A p \in Procs :
         (pc[p] = "get_current_user" /\ loc[p].admin /\ pc'[p] # pc[p]) =>
           LET stored == {u \in user : u.id = loc[p].token.sub}
           IN  /\ (\A u \in stored : u.role # "admin") =>
                     (pc'[p] = "idle" /\ resp'.status \in {401, 403})
               /\ (/\ jwt_decode_ok(loc[p].token)
                   /\ stored # {}
                   /\ \A u \in stored : u.email_verified /\ u.role # "admin") =>
                     resp'.status = 403]_vars

C8_Witness ==
    /\ resp.op \in AdminOps
    /\ resp.status = 403
    /\ resp.token # NoToken
    /\ resp.token.role = "admin"
    /\ \E u \in user : u.id = resp.token.sub /\ u.email_verified /\ u.role = "user"

AuthedOps == {"create_post", "delete_account"}

\* C9: a request behind get_current_user that arrives with a token of this
\* service whose user row is gone never gets past the dependency, writes
\* nothing and is answered 401.
C9_DeletedUserRejected ==
    /\ (resp.op \in AuthedOps /\ resp.stale) => (resp.status = 401 /\ ~resp.wrote)
    /\ \A p \in Procs :
         (loc[p].op \in AuthedOps /\ loc[p].stale) =>
           (pc[p] = "get_current_user" /\ ~loc[p].wrote)

C9_Witness ==
    /\ resp.op = "create_post"
    /\ resp.stale
    /\ jwt_decode_ok(resp.token)
    /\ resp.status = 401
    /\ \A u \in user : u.id # resp.token.sub

\* C10 (as claimed): a delete_account request that ends with an error
\* response has deleted none of the user's content rows.
C10_AllOrNothing ==
    (resp.op = "delete_account" /\ resp.status >= 500) => resp.removed = 0

\* C11 (as claimed): when delete_account answers 200, no row of the nine
\* tables and no user row is owned by the deleted user, and no row is
\* attached to a post the request has deleted.
C11_Cascade ==
    (resp.op = "delete_account" /\ resp.status = 200) =>
      /\ \A u \in user : u.id # resp.uid
      /\ \A i \in 1..Len(OwnedTables) :
           \A r \in content[OwnedTables[i]] : r.user_id # resp.uid
      /\ \A t \in AllTables :
           \A r \in content[t] : <<"post", r.parent>> \notin resp.deleted

\* C12 (as claimed): when a signup that has inserted a new user row ends
\* with an error response, no user row with the new id and no code row for
\* it is left.
C12_SignupRollback ==
    [][\A p \in Procs :
         (/\ loc[p].op = "signup" /\ loc[p].ret = "su_send"
          /\ pc'[p] = "idle" /\ resp'.op = "signup" /\ resp'.status >= 500) =>
           /\ \A u \in user' : u.id # loc[p].uid
           /\ \A t \in email_verification_token' : t.user_id # loc[p].uid]_vars

AccountCleanupSteps == {"cu_select", "cu_del_token", "cu_del_user"}
TokenCleanupSteps == {"ct_select", "ct_delete"}

\* C13: the scheduler thread starts a cycle infinitely often; every cycle
\* that has started the account cleanup reaches the code cleanup and then
\* the sleep, also when remote calls raise; the code cleanup is entered only
\* from the account cleanup and the sleep only from the code cleanup.
C13_SchedulerLoop ==
    /\ []<>(pc[Scheduler] = "cu_select")
    /\ (pc[Scheduler] = "cu_select") ~> (pc[Scheduler] = "ct_select")
    /\ (pc[Scheduler] = "ct_select") ~> (pc[Scheduler] = "idle")
    /\ [][/\ (pc'[Scheduler] = "ct_select" /\ pc[Scheduler] # "ct_select") =>
               pc[Scheduler] \in AccountCleanupSteps
          /\ (pc'[Scheduler] = "idle" /\ pc[Scheduler] # "idle") =>
               pc[Scheduler] \in TokenCleanupSteps]_vars

C13_Witness ==
    /\ pc[Scheduler] = "idle"
    /\ loc[Scheduler].op = "run_cleanup"
    /\ loc[Scheduler].failed
    /\ purged # {}

VotesOf(post_id, vote_type) ==
    {v \in content["post_vote"] : v.parent = post_id /\ v.vote_type = vote_type}

\* C14 (as claimed): once the vote requests of the two members have
\* completed, like_count and dislike_count of every post equal the numbers
\* of like and dislike rows of post_vote for that post.
C14_ExactCounters ==
    (\A p \in Procs : pc[p] = "idle") =>
      \A r \in content["post"] :
        /\ r.like_count = Cardinality(VotesOf(r.id, "like"))
        /\ r.dislike_count = Cardinality(VotesOf(r.id, "dislike"))

\* C15 (as claimed): in every state post_vote holds at most one row for each
\* pair of post and user.
C15_OneVotePerUser ==
    \A v, w \in content["post_vote"] :
      (v.parent = w.parent /\ v.user_id = w.user_id) => v.id = w.id

====
